---- MODULE Spec2Model ----
(***************************************************************************)
(* Verification model of the test harness of reprorusted-python-cli:       *)
(*   - tests/test_io_equivalence.rs: Example::run_python, Example::run_rust *)
(*     and Example::assert_equivalence (specification Spec);               *)
(*   - examples/example_simple/tests/golden_trace_validation.rs: the       *)
(*     golden-trace tests (specification TraceSpec).                       *)
(***************************************************************************)
EXTENDS Integers, Sequences, FiniteSets, TLC

VARIABLES
    \* ---- world of one assert_equivalence call ----
    python3,      \* whether the "python3" interpreter can be spawned
    rust_binary,  \* state of the file at self.rust_binary
    args,         \* the argument vector of the scenario
    py_proc,      \* the reference child process: state, and what it emitted
    rs_proc,      \* the candidate child process
    \* ---- assert_equivalence ----
    pc,           \* position inside assert_equivalence
    py,           \* (py_exit, py_stdout, py_stderr) as returned by run_python
    rs,           \* (rs_exit, rs_stdout, rs_stderr) as returned by run_rust
    spawns,       \* number of spawn attempts per side
    failure,      \* the panic raised, with what its message carries
    \* ---- golden-trace suite ----
    golden_trace, \* contents of ../../golden_traces/trivial_cli_rust.json
    summary,      \* contents of ../../golden_traces/trivial_cli_rust_summary.txt
    renacer,      \* what the external tracer does when test_regression_check runs it
    verdict,      \* per test of the suite: "idle", "pass" or the failed assertion
    report,       \* what the failed assertion of test_regression_check prints
    \* ---- test_all_examples_have_help / test_all_examples_have_version ----
    loop,         \* the for loop over the examples: position, subjects compared, panic
    \* ---- test_stdlib_*: tests that write an input file ----
    temp,         \* the temporary directories that exist, and each test's position
    \* ---- the example programs (examples/example_*/src/main.rs) ----
    prog          \* one run of an example's main: command, locals, what it printed

eq_vars == <<python3, rust_binary, args, py_proc, rs_proc, pc, py, rs, spawns, failure>>
trace_vars == <<golden_trace, summary, renacer, verdict, report>>
vars == <<python3, rust_binary, args, py_proc, rs_proc, pc, py, rs, spawns, failure,
          golden_trace, summary, renacer, verdict, report, loop, temp, prog>>

(***************************************************************************)
(* Bytes and text                                                          *)
(***************************************************************************)

\* Longest stdout a modelled child process writes, in bytes.
MaxLen == 2

\* Bytes a modelled child writes to stdout: '\n', and the two bytes of the
\* UTF-8 encoding of U+00E9, each of which alone is invalid UTF-8.
StdoutAlphabet == {10, 195, 169}

BytesUpTo(n) == UNION {[1..k -> StdoutAlphabet] : k \in 0..n}

\* "error", "Error", "ERROR", "eRRor", "usage" and a lone invalid byte
b_error == <<101, 114, 114, 111, 114>>
b_Error == <<69, 114, 114, 111, 114>>
b_ERROR == <<69, 82, 82, 79, 82>>
b_eRRor == <<101, 82, 82, 111, 114>>
b_usage == <<117, 115, 97, 103, 101>>

StderrSamples == {<<>>, b_usage \o <<58, 32>> \o b_error, b_Error, b_ERROR, b_eRRor, b_usage}

\* std::process::ExitStatus of a terminated child: an exit code, or a signal.
Statuses == {[kind |-> "exited", code |-> 0],
             [kind |-> "exited", code |-> 1],
             [kind |-> "signaled", code |-> 9]}

REPLACEMENT_CHARACTER == 65533

IsContinuation(b) == b >= 128 /\ b <= 191
IsLead2(b) == b >= 194 /\ b <= 223

\* String::from_utf8_lossy(bytes).to_string(): the text as its sequence of
\* code points; every invalid byte becomes U+FFFD.  One- and two-byte
\* sequences are decoded (the alphabets hold no lead byte of a longer one).
RECURSIVE from_utf8_lossy(_)
from_utf8_lossy(v) ==
    IF v = <<>> THEN <<>>
    ELSE IF Head(v) < 128 THEN <<Head(v)>> \o from_utf8_lossy(Tail(v))
    ELSE IF IsLead2(Head(v)) /\ Len(v) >= 2 /\ IsContinuation(v[2])
         THEN <<(Head(v) - 192) * 64 + (v[2] - 128)>> \o from_utf8_lossy(Tail(Tail(v)))
    ELSE <<REPLACEMENT_CHARACTER>> \o from_utf8_lossy(Tail(v))

\* str::contains(pat)
contains(s, pat) ==
    \E i \in 0..(Len(s) - Len(pat)) : SubSeq(s, i + 1, i + Len(pat)) = pat

is_empty(s) == Len(s) = 0

\* faulty variant: output.status.code().unwrap_or(0)
exit_code_or_zero(status) == IF status.kind = "exited" THEN status.code ELSE 0

\* output.status.code().unwrap_or(-1)
exit_code(status) == IF status.kind = "exited" THEN status.code ELSE -1

(***************************************************************************)
(* Example (tests/test_io_equivalence.rs)                                  *)
(***************************************************************************)

\* Example::new("trivial_cli", "example_simple", "trivial_cli.py")
name == "trivial_cli"
python_script_path == "examples/example_simple/trivial_cli.py"
rust_binary_path == "examples/example_simple/trivial_cli"

ArgVectors == {<<"--help">>, <<"--name", "Alice">>}

NoProc == [state |-> "none"]
NoResult == <<>>
NoFailure == [kind |-> "none"]

EqInit ==
    /\ python3 \in {"ok", "missing"}
    /\ rust_binary \in {"ok", "missing", "not_executable"}
    /\ args \in ArgVectors
    /\ py_proc = NoProc
    /\ rs_proc = NoProc
    /\ pc = "run_python"
    /\ py = NoResult
    /\ rs = NoResult
    /\ spawns = [python |-> 0, rust |-> 0]
    /\ failure = NoFailure

\* The (i32, String, String) a runner returns for a terminated child.
Captured(p) ==
    <<exit_code(p.status), from_utf8_lossy(p.stdout), from_utf8_lossy(p.stderr)>>

py_exit == py[1]
py_stdout == py[2]
py_stderr == py[3]
rs_exit == rs[1]
rs_stdout == rs[2]
rs_stderr == rs[3]

\* faulty variant: a failure sends the scenario back to its first step
PanicWithRetry(f) ==
    /\ pc' = "run_python"
    /\ failure' = f

\* A panic ends assert_equivalence: nothing catches it and nothing is run again.
Panic(f) ==
    /\ pc' = "panicked"
    /\ failure' = f

\* .expect(msg) on the io::Error of a failed spawn: the message and the error.
ExpectFailure(msg, err) == [kind |-> "expect", message |-> msg, error |-> err]

\* panic!("Rust binary not found: {}. Run 'make compile' in examples/{}/", ...)
BinaryNotFound == [kind |-> "binary_not_found", path |-> rust_binary_path, name |-> name]

\* the three assertion messages of assert_equivalence
ExitCodesDiffer ==
    [kind |-> "exit_codes", name |-> name, args |-> args, python |-> py_exit, rust |-> rs_exit]
StdoutDiffers ==
    [kind |-> "stdout", name |-> name, args |-> args, python |-> py_stdout, rust |-> rs_stdout]
StderrLacksError ==
    [kind |-> "stderr", name |-> name, args |-> args, rust |-> rs_stderr]

\* run_python: Command::new("python3").arg(script).args(args).output(), the spawn
SpawnPython ==
    /\ pc = "run_python"
    /\ spawns' = [spawns EXCEPT !.python = @ + 1]
    /\ IF python3 = "ok"
       THEN /\ py_proc' = [state |-> "alive"]
            /\ pc' = "wait_python"
            /\ UNCHANGED failure
       ELSE /\ Panic(ExpectFailure("Failed to execute Python script", "NotFound"))
            /\ UNCHANGED py_proc
    /\ UNCHANGED <<python3, rust_binary, args, rs_proc, py, rs>>
    /\ UNCHANGED <<trace_vars, loop, temp, prog>>

\* the reference child writes its streams and terminates
PythonExits ==
    /\ py_proc.state = "alive"
    /\ \E st \in Statuses, out \in BytesUpTo(MaxLen), err \in StderrSamples :
         py_proc' = [state |-> "exited", status |-> st, stdout |-> out, stderr |-> err]
    /\ UNCHANGED <<python3, rust_binary, args, rs_proc, pc, py, rs, spawns, failure>>
    /\ UNCHANGED <<trace_vars, loop, temp, prog>>

\* run_python: output() returns once the child has terminated; lines 52-56
CapturePython ==
    /\ pc = "wait_python"
    /\ py_proc.state = "exited"
    /\ py' = Captured(py_proc)
    /\ pc' = "run_rust"
    /\ UNCHANGED <<python3, rust_binary, args, py_proc, rs_proc, rs, spawns, failure>>
    /\ UNCHANGED <<trace_vars, loop, temp, prog>>

\* faulty variant: the candidate is started without waiting for the reference
RustMayStartEarly == pc \in {"wait_python", "run_rust"}

\* assert_equivalence calls run_rust after run_python has returned
RustMayStart == pc = "run_rust"

\* run_rust: the exists() check, then Command::new(&self.rust_binary).args(args).output()
SpawnRust ==
    /\ RustMayStart
    /\ IF rust_binary = "missing"
       THEN /\ Panic(BinaryNotFound)
            /\ UNCHANGED <<rs_proc, spawns>>
       ELSE /\ spawns' = [spawns EXCEPT !.rust = @ + 1]
            /\ IF rust_binary = "ok"
               THEN /\ rs_proc' = [state |-> "alive"]
                    /\ pc' = "wait_rust"
                    /\ UNCHANGED failure
               ELSE /\ Panic(ExpectFailure("Failed to execute Rust binary", "PermissionDenied"))
                    /\ UNCHANGED rs_proc
    /\ UNCHANGED <<python3, rust_binary, args, py_proc, py, rs>>
    /\ UNCHANGED <<trace_vars, loop, temp, prog>>

\* the candidate child writes its streams and terminates
RustExits ==
    /\ rs_proc.state = "alive"
    /\ \E st \in Statuses, out \in BytesUpTo(MaxLen), err \in StderrSamples :
         rs_proc' = [state |-> "exited", status |-> st, stdout |-> out, stderr |-> err]
    /\ UNCHANGED <<python3, rust_binary, args, py_proc, pc, py, rs, spawns, failure>>
    /\ UNCHANGED <<trace_vars, loop, temp, prog>>

\* run_rust: output() returns once the child has terminated; lines 75-79
CaptureRust ==
    /\ pc = "wait_rust"
    /\ rs_proc.state = "exited"
    /\ rs' = Captured(rs_proc)
    /\ pc' = "cmp_exit"
    /\ UNCHANGED <<python3, rust_binary, args, py_proc, rs_proc, py, spawns, failure>>
    /\ UNCHANGED <<trace_vars, loop, temp, prog>>

\* faulty variant: only success and failure are told apart
ExitStatusAgree(a, b) == (a = 0) <=> (b = 0)

\* assert_eq!(py_exit, rs_exit, ...)
ExitCodesAgree(a, b) == a = b

CompareExitCodes ==
    /\ pc = "cmp_exit"
    /\ IF ExitCodesAgree(py_exit, rs_exit)
       THEN pc' = "cmp_stdout" /\ UNCHANGED failure
       ELSE Panic(ExitCodesDiffer)
    /\ UNCHANGED <<python3, rust_binary, args, py_proc, rs_proc, py, rs, spawns>>
    /\ UNCHANGED <<trace_vars, loop, temp, prog>>

\* assert_eq!(py_stdout, rs_stdout, ...)
StdoutAgree(a, b) == a = b

\* faulty variant: a difference in stdout is noted and the checks go on
CompareStdoutAndGoOn ==
    /\ pc = "cmp_stdout"
    /\ pc' = "cmp_stderr"
    /\ failure' = IF StdoutAgree(py_stdout, rs_stdout) THEN failure ELSE StdoutDiffers
    /\ UNCHANGED <<python3, rust_binary, args, py_proc, rs_proc, py, rs, spawns>>
    /\ UNCHANGED <<trace_vars, loop, temp, prog>>

CompareStdout ==
    /\ pc = "cmp_stdout"
    /\ IF StdoutAgree(py_stdout, rs_stdout)
       THEN pc' = "cmp_stderr" /\ UNCHANGED failure
       ELSE Panic(StdoutDiffers)
    /\ UNCHANGED <<python3, rust_binary, args, py_proc, rs_proc, py, rs, spawns>>
    /\ UNCHANGED <<trace_vars, loop, temp, prog>>

\* faulty variant: compare as soon as either side wrote to stderr
StderrComparedIfAny(a, b) == ~is_empty(a) \/ ~is_empty(b)

\* if !py_stderr.is_empty() && !rs_stderr.is_empty()
StderrCompared(a, b) == ~is_empty(a) /\ ~is_empty(b)

\* faulty variant: the capitalised form is not looked for
StderrHasLowercaseError(s) == contains(s, b_error)

\* rs_stderr.contains("error") || rs_stderr.contains("Error")
StderrIndicatesError(s) == contains(s, b_error) \/ contains(s, b_Error)

CompareStderr ==
    /\ pc = "cmp_stderr"
    /\ IF StderrCompared(py_stderr, rs_stderr) /\ ~StderrIndicatesError(rs_stderr)
       THEN Panic(StderrLacksError)
       ELSE pc' = "passed" /\ UNCHANGED failure
    /\ UNCHANGED <<python3, rust_binary, args, py_proc, rs_proc, py, rs, spawns>>
    /\ UNCHANGED <<trace_vars, loop, temp, prog>>

EqNext ==
    \/ SpawnPython
    \/ PythonExits
    \/ CapturePython
    \/ SpawnRust
    \/ RustExits
    \/ CaptureRust
    \/ CompareExitCodes
    \/ CompareStdout
    \/ CompareStderr

(***************************************************************************)
(* JSON values (serde_json::Value)                                         *)
(***************************************************************************)

Null == [t |-> "null"]
Str(s) == [t |-> "string", s |-> s]
Num(n) == [t |-> "number", n |-> n]
Arr(a) == [t |-> "array", a |-> a]
\* an object holding the members `keys` of the record `full`
Obj(full, keys) == [t |-> "object", o |-> [k \in keys |-> full[k]]]

\* value[key]: Null for a missing member and for a value that is no object
Index(v, key) == IF v.t = "object" /\ key \in DOMAIN v.o THEN v.o[key] ELSE Null

is_array(v) == v.t = "array"
is_string(v) == v.t = "string"
\* value == "literal", and as_str() == Some("literal"): no coercion
EqStr(v, s) == v.t = "string" /\ v.s = s

\* a file of the fixture directory: missing, not JSON, or a JSON document
Missing == [state |-> "missing"]
NotJson == [state |-> "not_json"]
Json(v) == [state |-> "json", value |-> v]

(***************************************************************************)
(* Golden-trace fixtures                                                   *)
(***************************************************************************)

\* Longest syscalls array of a modelled golden trace.
MaxEvents == 2

\* a well-formed event { "name": n, "args": [] }
Event(n) == Obj([name |-> Str(n), args |-> Arr(<<>>)], {"name", "args"})
\* an event whose name is no string
NamelessEvent == Obj([name |-> Null, args |-> Arr(<<>>)], {"name", "args"})

Events == {Event("write"), Event("brk"), Event("mmap"), Event("read"), NamelessEvent}

EventsUpTo(n) == UNION {[1..k -> Events] : k \in 0..n}

VersionValues == {Str("0.6.2"), Str("0.6.20"), Num(6)}
FormatValues == {Str("renacer-json-v1"), Str("renacer-json-v2"), Null}
SyscallsValues == {Arr(a) : a \in EventsUpTo(MaxEvents)} \cup {Str("write")}

\* every document with any subset of the three members
TraceDocuments ==
    {Obj([version |-> v, format |-> f, syscalls |-> sc], ks) :
        v \in VersionValues, f \in FormatValues, sc \in SyscallsValues,
        ks \in {{"version", "format", "syscalls"}, {"format", "syscalls"},
                {"version", "syscalls"}, {"version", "format"}}}

GoldenTraceFiles == {Missing, NotJson, Json(Arr(<<>>))} \cup {Json(d) : d \in TraceDocuments}

\* One whitespace-separated field of the summary table, by its lexical class:
\* a decimal number (held in millionths), an unsigned integer, or a word.
Decimal(millionths) == [class |-> "decimal", v |-> millionths]
Integer(n) == [class |-> "integer", v |-> n]
Word(w) == [class |-> "word", word |-> w]

\* Result<T, E> of a parse
Ok(v) == [ok |-> TRUE, v |-> v]
Err == [ok |-> FALSE]

\* str::parse::<f64>(): the value in millionths
parse_f64(tok) ==
    IF tok.class = "decimal" THEN Ok(tok.v)
    ELSE IF tok.class = "integer" THEN Ok(tok.v * 1000000)
    ELSE Err

\* str::parse::<usize>()
parse_usize(tok) == IF tok.class = "integer" THEN Ok(tok.v) ELSE Err

\* a row "  %time  seconds  usecs/call  calls  errors  syscall"
Row(pct, micros, per_call, calls, errors, label) ==
    <<Decimal(pct), Decimal(micros), Integer(per_call), Integer(calls), Integer(errors),
      Word(label)>>

\* the summary as captured: "100.00    0.000561           8        65         2 total"
CapturedSummary ==
    <<Row(60000000, 337, 8, 40, 0, "write"), Row(100000000, 561, 8, 65, 2, "total")>>
\* a summary whose total row is over both budgets
SlowSummary ==
    <<Row(60000000, 1500, 8, 80, 0, "write"), Row(100000000, 2500, 8, 130, 2, "total")>>

Text(lines) == [state |-> "text", lines |-> lines]

SummaryFiles == {Missing, Text(CapturedSummary), Text(SlowSummary)}

\* What `renacer --format json -- ./trivial_cli --name RegressionTest` does:
\* it cannot be started, it exits unsuccessfully, or it succeeds and its
\* stdout, less the lines starting with "Hello", is or is not a JSON document.
RenacerFailsToStart == [started |-> FALSE]
RenacerExits(ok, doc) == [started |-> TRUE, success |-> ok, stdout |-> doc]

\* a fresh trace of k syscalls
RECURSIVE Repeat(_, _)
Repeat(e, k) == IF k = 0 THEN <<>> ELSE <<e>> \o Repeat(e, k - 1)
FreshTrace(k) ==
    Json(Obj([version |-> Str("0.6.2"), format |-> Str("renacer-json-v1"),
              syscalls |-> Arr(Repeat(Event("write"), k))],
             {"version", "format", "syscalls"}))

TOLERANCE == 10

RenacerOutcomes ==
    {RenacerFailsToStart, RenacerExits(FALSE, NotJson), RenacerExits(TRUE, NotJson),
     RenacerExits(TRUE, FreshTrace(TOLERANCE)), RenacerExits(TRUE, FreshTrace(TOLERANCE + 1))}

Tests == {"test_golden_trace_exists", "test_golden_trace_format",
          "test_performance_baseline", "test_syscall_count_budget",
          "test_expected_syscall_patterns", "test_regression_check"}

(***************************************************************************)
(* Golden-trace tests (golden_trace_validation.rs).  Each test's outcome   *)
(* is "pass" or the message of the assertion, expect or unwrap that fails. *)
(***************************************************************************)

UnwrapNone == "called Option::unwrap() on a None value"
UnwrapErr == "called Result::unwrap() on an Err value"
IndexOutOfBounds == "index out of bounds"

EXPECTED_VERSION == "0.6.2"
EXPECTED_FORMAT == "renacer-json-v1"

\* assert!(Path::new(golden_trace_path).exists(), ...)
golden_trace_exists(file) ==
    IF file.state # "missing" THEN "pass" ELSE "Golden trace should exist"

\* faulty variant: any string is taken for the version
VersionPresent(json) == is_string(Index(json, "version"))

\* assert_eq!(json["version"], "0.6.2", ...); assert_eq!(json["format"], "renacer-json-v1", ...)
VersionMatches(json) == EqStr(Index(json, "version"), EXPECTED_VERSION)
FormatMatches(json) == EqStr(Index(json, "format"), EXPECTED_FORMAT)

\* the body of test_golden_trace_format once the document is parsed
golden_trace_format_json(json) ==
    IF ~VersionMatches(json) THEN "Trace version should match"
    ELSE IF ~FormatMatches(json) THEN "Format should be renacer-json-v1"
    ELSE IF ~is_array(Index(json, "syscalls")) THEN "Should have syscalls array"
    ELSE LET syscalls == Index(json, "syscalls").a IN
         IF Len(syscalls) = 0 THEN "Should have at least one syscall"
         ELSE LET first_syscall == syscalls[1] IN
              IF ~is_string(Index(first_syscall, "name")) THEN "Syscall should have name"
              ELSE IF ~is_array(Index(first_syscall, "args")) THEN "Syscall should have args"
              ELSE "pass"

golden_trace_format(file) ==
    IF file.state = "missing" THEN "Golden trace file should be readable"
    ELSE IF file.state = "not_json" THEN "Golden trace should be valid JSON"
    ELSE golden_trace_format_json(file.value)

BUDGET_MS == 2
BUDGET_SYSCALLS == 100

\* faulty variant: total_time_ms <= 2.0
AtMostTimeBudget(total_time_secs) == total_time_secs <= BUDGET_MS * 1000

\* total_time_secs * 1000.0 < 2.0, with total_time_secs held in millionths
UnderTimeBudget(total_time_secs) == total_time_secs < BUDGET_MS * 1000

performance_baseline(file) ==
    IF file.state = "missing" THEN "Summary file should exist"
    ELSE IF Len(file.lines) = 0 THEN UnwrapNone
    ELSE LET parts == file.lines[Len(file.lines)] IN
         IF Len(parts) < 2 THEN IndexOutOfBounds
         ELSE LET total_time_secs == parse_f64(parts[2]) IN
              IF ~total_time_secs.ok THEN UnwrapErr
              ELSE IF UnderTimeBudget(total_time_secs.v) THEN "pass"
              ELSE "CLI should complete in <2ms"

\* faulty variant: total_calls <= 100
AtMostSyscallBudget(total_calls) == total_calls <= BUDGET_SYSCALLS

\* total_calls < 100
UnderSyscallBudget(total_calls) == total_calls < BUDGET_SYSCALLS

syscall_count_budget(file) ==
    IF file.state = "missing" THEN "Summary file should exist"
    ELSE IF Len(file.lines) = 0 THEN UnwrapNone
    ELSE LET parts == file.lines[Len(file.lines)] IN
         IF Len(parts) < 4 THEN IndexOutOfBounds
         ELSE LET total_calls == parse_usize(parts[4]) IN
              IF ~total_calls.ok THEN UnwrapErr
              ELSE IF UnderSyscallBudget(total_calls.v) THEN "pass"
              ELSE "CLI should use <100 syscalls"

\* faulty variant: any call of the write family counts as output
IsWriteFamily(sc) ==
    \E n \in {"write", "writev", "pwrite64"} : EqStr(Index(sc, "name"), n)

\* sc["name"].as_str() == Some("write")
IsWrite(sc) == EqStr(Index(sc, "name"), "write")

\* faulty variant: mmap is not taken for an allocation
IsBrk(sc) == EqStr(Index(sc, "name"), "brk")

\* matches!(sc["name"].as_str(), Some("brk") | Some("mmap"))
IsMemoryAlloc(sc) == EqStr(Index(sc, "name"), "brk") \/ EqStr(Index(sc, "name"), "mmap")

expected_syscall_patterns(file) ==
    IF file.state = "missing" THEN "Golden trace file should be readable"
    ELSE IF file.state = "not_json" THEN "Golden trace should be valid JSON"
    ELSE IF ~is_array(Index(file.value, "syscalls")) THEN UnwrapNone
    ELSE LET syscalls == Index(file.value, "syscalls").a
             has_write == \E i \in 1..Len(syscalls) : IsWrite(syscalls[i])
             has_memory_alloc == \E i \in 1..Len(syscalls) : IsMemoryAlloc(syscalls[i])
         IN  IF ~has_write THEN "CLI should perform write syscall for output"
             ELSE IF ~has_memory_alloc THEN "CLI should perform memory allocation"
             ELSE "pass"

\* faulty variant: the difference keeps its sign
signed(x) == x

\* (new_count as i32 - golden_count as i32).abs()
abs(x) == IF x < 0 THEN -x ELSE x

\* let diff = (new_count as i32 - golden_count as i32).abs();
regression_diff(new_count, golden_count) == abs(new_count - golden_count)

regression_check(run, file) ==
    IF ~run.started THEN "Failed to run renacer"
    ELSE IF ~run.success THEN "Renacer should execute successfully"
    ELSE IF run.stdout.state = "not_json" THEN "New trace should be valid JSON"
    ELSE IF file.state = "missing" THEN "Golden trace should exist"
    ELSE IF file.state = "not_json" THEN "Golden trace should be valid JSON"
    ELSE IF ~is_array(Index(run.stdout.value, "syscalls")) THEN UnwrapNone
    ELSE IF ~is_array(Index(file.value, "syscalls")) THEN UnwrapNone
    ELSE LET new_count == Len(Index(run.stdout.value, "syscalls").a)
             golden_count == Len(Index(file.value, "syscalls").a)
             diff == regression_diff(new_count, golden_count)
         IN  IF diff <= TOLERANCE THEN "pass"
             ELSE "Syscall count regression detected"

NoReport == [kind |-> "none"]

\* faulty variant: the two counts change places in the message
RegressionDetectedSwapped(golden_count, new_count, diff) ==
    [kind |-> "regression", golden |-> new_count, new |-> golden_count, diff |-> diff]

\* "Syscall count regression detected. Golden: {}, New: {}, Diff: {}"
RegressionDetected(golden_count, new_count, diff) ==
    [kind |-> "regression", golden |-> golden_count, new |-> new_count, diff |-> diff]

\* what the tolerance assertion of test_regression_check prints when it fails
regression_report(run, file) ==
    IF regression_check(run, file) # "Syscall count regression detected" THEN NoReport
    ELSE LET new_count == Len(Index(run.stdout.value, "syscalls").a)
             golden_count == Len(Index(file.value, "syscalls").a)
         IN  RegressionDetected(golden_count, new_count,
                                regression_diff(new_count, golden_count))

\* a test of the suite runs to its end; the tests run in any order
\* faulty variant: a test that ends removes the stored trace
FinishAndRemove(test, outcome) ==
    /\ verdict[test] = "idle"
    /\ verdict' = [verdict EXCEPT ![test] = outcome]
    /\ golden_trace' = Missing
    /\ UNCHANGED <<summary, renacer, report>>
    /\ UNCHANGED <<eq_vars, loop, temp, prog>>

Finish(test, outcome) ==
    /\ verdict[test] = "idle"
    /\ verdict' = [verdict EXCEPT ![test] = outcome]
    /\ UNCHANGED <<golden_trace, summary, renacer, report>>
    /\ UNCHANGED <<eq_vars, loop, temp, prog>>

test_golden_trace_exists ==
    Finish("test_golden_trace_exists", golden_trace_exists(golden_trace))
test_golden_trace_format ==
    Finish("test_golden_trace_format", golden_trace_format(golden_trace))
test_performance_baseline ==
    Finish("test_performance_baseline", performance_baseline(summary))
test_syscall_count_budget ==
    Finish("test_syscall_count_budget", syscall_count_budget(summary))
test_expected_syscall_patterns ==
    Finish("test_expected_syscall_patterns", expected_syscall_patterns(golden_trace))
\* #[ignore]: run only when asked for
test_regression_check ==
    /\ verdict["test_regression_check"] = "idle"
    /\ verdict' = [verdict EXCEPT
                      !["test_regression_check"] = regression_check(renacer, golden_trace)]
    /\ report' = regression_report(renacer, golden_trace)
    /\ UNCHANGED <<golden_trace, summary, renacer>>
    /\ UNCHANGED <<eq_vars, loop, temp, prog>>

TraceInit ==
    /\ golden_trace \in GoldenTraceFiles
    /\ summary \in SummaryFiles
    /\ renacer \in RenacerOutcomes
    /\ verdict = [t \in Tests |-> "idle"]
    /\ report = NoReport

TraceNext ==
    \/ test_golden_trace_exists
    \/ test_golden_trace_format
    \/ test_performance_baseline
    \/ test_syscall_count_budget
    \/ test_expected_syscall_patterns
    \/ test_regression_check

\* the equivalence harness at rest
EqIdle ==
    /\ python3 = "ok"
    /\ rust_binary = "ok"
    /\ args = <<>>
    /\ py_proc = NoProc
    /\ rs_proc = NoProc
    /\ pc = "idle"
    /\ py = NoResult
    /\ rs = NoResult
    /\ spawns = [python |-> 0, rust |-> 0]
    /\ failure = NoFailure

\* the golden-trace suite at rest
TraceIdle ==
    /\ golden_trace = <<>>
    /\ summary = <<>>
    /\ renacer = <<>>
    /\ verdict = <<>>
    /\ report = NoReport

\* no loop over the examples is running
LoopIdle == loop = <<>>

\* no test with a temporary directory is running
TempIdle == temp = <<>>

\* no example program is running
ProgIdle == prog = <<>>

Init == EqInit /\ TraceIdle /\ LoopIdle /\ TempIdle /\ ProgIdle

Next == EqNext

Spec == Init /\ [][Next]_vars

TraceSpecInit == TraceInit /\ EqIdle /\ LoopIdle /\ TempIdle /\ ProgIdle

TraceSpec == TraceSpecInit /\ [][TraceNext]_vars

(***************************************************************************)
(* The two budget tests over a range of summary files (SummarySpec)        *)
(***************************************************************************)

\* How far around each budget the modelled totals reach.
Margin == 3

\* total times in millionths of a second: 0, 0.000001, the captured 0.000561
\* and every microsecond around the budget of 0.002 s
TimeValues ==
    {0, 1, 561} \cup ((BUDGET_MS * 1000 - Margin)..(BUDGET_MS * 1000 + Margin))
\* the time field as printed: a decimal, or a bare integer number of seconds
TimeFields == {Decimal(t) : t \in TimeValues} \cup {Integer(0), Integer(1)}
CallValues == 0..(BUDGET_SYSCALLS + Margin)

\* well-formed rows, as the tracer prints them
TotalRows ==
    {<<Decimal(100000000), t, Integer(8), Integer(c), Integer(2), Word("total")>> :
        t \in TimeFields, c \in CallValues}

\* last lines that are no row of numbers: a blank line, rows cut short after
\* one and after three fields, the table's rule and its header
OddLines ==
    {<<>>,
     <<Decimal(100000000)>>,
     <<Decimal(100000000), Decimal(561), Integer(8)>>,
     <<Word("------"), Word("-----------"), Word("-----------"), Word("---------"),
       Word("---------"), Word("----------------")>>,
     <<Decimal(100000000), Word("seconds"), Integer(8), Decimal(65000000), Integer(2),
       Word("total")>>}

\* a summary cut off after its first per-syscall row
TruncatedSummary == <<Row(60000000, 337, 8, 40, 0, "write")>>

WideSummaryFiles ==
    {Missing, Text(<<>>), Text(TruncatedSummary)}
    \cup {Text(<<Row(60000000, 337, 8, 40, 0, "write"), last>>) : last \in TotalRows \cup OddLines}

SummaryInit ==
    /\ golden_trace = Missing
    /\ summary \in WideSummaryFiles
    /\ renacer = RenacerFailsToStart
    /\ verdict = [t \in Tests |-> "idle"]
    /\ report = NoReport

SummaryNext ==
    \/ test_performance_baseline
    \/ test_syscall_count_budget

SummarySpecInit == SummaryInit /\ EqIdle /\ LoopIdle /\ TempIdle /\ ProgIdle

SummarySpec == SummarySpecInit /\ [][SummaryNext]_vars

(***************************************************************************)
(* The regression test over a range of counts (RegressionSpec)             *)
(***************************************************************************)

\* The longest stored baseline.
MaxBaseline == 12

\* a stored golden trace of n syscalls
Baseline(n) ==
    Json(Obj([version |-> Str("0.6.2"), format |-> Str("renacer-json-v1"),
              syscalls |-> Arr(Repeat(Event("brk"), n))],
             {"version", "format", "syscalls"}))

Baselines == {Missing, NotJson} \cup {Baseline(n) : n \in 0..MaxBaseline}

\* fresh traces from none to past the tolerance above the longest baseline
FreshRuns ==
    {RenacerFailsToStart, RenacerExits(FALSE, NotJson), RenacerExits(TRUE, NotJson)}
    \cup {RenacerExits(TRUE, FreshTrace(m)) : m \in 0..(MaxBaseline + TOLERANCE + 1)}

RegressionInit ==
    /\ golden_trace \in Baselines
    /\ summary = Missing
    /\ renacer \in FreshRuns
    /\ verdict = [t \in Tests |-> "idle"]
    /\ report = NoReport

RegressionNext == test_regression_check

RegressionSpecInit == RegressionInit /\ EqIdle /\ LoopIdle /\ TempIdle /\ ProgIdle

RegressionSpec == RegressionSpecInit /\ [][RegressionNext]_vars

(***************************************************************************)
(* The pattern test over a range of traces (PatternSpec)                   *)
(***************************************************************************)

\* The longest trace given to the pattern test.
MaxPattern == 3

PatternEvents ==
    {Event("write"), Event("writev"), Event("pwrite64"), Event("brk"), Event("mmap"),
     Event("read"), NamelessEvent}

\* a stored trace holding the given syscalls
TraceOf(syscalls) ==
    Json(Obj([version |-> Str("0.6.2"), format |-> Str("renacer-json-v1"),
              syscalls |-> Arr(syscalls)],
             {"version", "format", "syscalls"}))

PatternTraces ==
    {Missing, NotJson, Json(Arr(<<>>)),
     Json(Obj([version |-> Str("0.6.2"), format |-> Str("renacer-json-v1")],
              {"version", "format"}))}
    \cup {TraceOf(l) : l \in UNION {[1..k -> PatternEvents] : k \in 0..MaxPattern}}

PatternInit ==
    /\ golden_trace \in PatternTraces
    /\ summary = Missing
    /\ renacer = RenacerFailsToStart
    /\ verdict = [t \in Tests |-> "idle"]
    /\ report = NoReport

PatternNext == test_expected_syscall_patterns

PatternSpecInit == PatternInit /\ EqIdle /\ LoopIdle /\ TempIdle /\ ProgIdle

PatternSpec == PatternSpecInit /\ [][PatternNext]_vars

(***************************************************************************)
(* Cross-example tests (LoopSpec): test_all_examples_have_help and         *)
(* test_all_examples_have_version call assert_equivalence on six examples  *)
(* from one for loop.                                                      *)
(***************************************************************************)

\* Example::new(name, dir, script): the script is given here by its stem,
\* and the paths by their components
Example(n, dir, stem) ==
    [name |-> n,
     python_script |-> <<"examples", dir, stem, ".py">>,
     rust_binary |-> <<"examples", dir, stem>>]

\* let examples = vec![...], the same six in both tests
examples ==
    <<Example("trivial_cli", "example_simple", "trivial_cli"),
      Example("flag_parser", "example_flags", "flag_parser"),
      Example("positional_args", "example_positional", "positional_args"),
      Example("git_clone", "example_subcommands", "git_clone"),
      Example("complex_cli", "example_complex", "complex_cli"),
      Example("stdlib_integration", "example_stdlib", "stdlib_integration")>>

LoopTests == {"test_all_examples_have_help", "test_all_examples_have_version"}

\* the argument vector each test passes
loop_args(test) == IF test = "test_all_examples_have_help" THEN <<"--help">> ELSE <<"--version">>

\* what a child of one of the examples may have done when output() returns
Terminated ==
    {[state |-> "exited", status |-> st, stdout |-> out, stderr |-> err] :
        st \in Statuses, out \in {<<>>, <<10>>}, err \in {<<>>, b_usage, b_Error}}

\* example.assert_equivalence(args) from call to return: NoFailure, or the
\* panic of the first expect, check or assertion that fails
assert_equivalence(example, argv, python, binary, reference, candidate) ==
    IF python # "ok" THEN ExpectFailure("Failed to execute Python script", "NotFound")
    ELSE IF binary = "missing"
    THEN [kind |-> "binary_not_found", path |-> example.rust_binary, name |-> example.name]
    ELSE IF binary # "ok" THEN ExpectFailure("Failed to execute Rust binary", "PermissionDenied")
    ELSE LET p == Captured(reference)
             r == Captured(candidate)
         IN  IF ~ExitCodesAgree(p[1], r[1])
             THEN [kind |-> "exit_codes", name |-> example.name, args |-> argv,
                   python |-> p[1], rust |-> r[1]]
             ELSE IF ~StdoutAgree(p[2], r[2])
             THEN [kind |-> "stdout", name |-> example.name, args |-> argv,
                   python |-> p[2], rust |-> r[2]]
             ELSE IF StderrCompared(p[3], r[3]) /\ ~StderrIndicatesError(r[3])
             THEN [kind |-> "stderr", name |-> example.name, args |-> argv, rust |-> r[3]]
             ELSE NoFailure

\* a test at the head of its loop: `at` is the example the loop is to take,
\* `compared` the examples assert_equivalence was called on, `panic` the
\* failure that ended the test
LoopInit ==
    loop \in {[test |-> t, at |-> 1, compared |-> <<>>, panic |-> NoFailure] : t \in LoopTests}

\* one turn of `for example in examples`: the println! and the call.  A
\* panic unwinds out of the loop and ends the test.
CompareExample ==
    /\ loop.panic = NoFailure
    /\ loop.at <= Len(examples)
    /\ \E python \in {"ok", "missing"}, binary \in {"ok", "missing", "not_executable"},
          reference \in Terminated, candidate \in Terminated :
         LET outcome == assert_equivalence(examples[loop.at], loop_args(loop.test),
                                           python, binary, reference, candidate)
         IN  loop' = [loop EXCEPT !.compared = Append(@, examples[loop.at].name),
                                  !.panic = outcome,
                                  !.at = IF outcome = NoFailure THEN @ + 1 ELSE @]
    /\ UNCHANGED <<eq_vars, trace_vars, temp, prog>>

LoopNext == CompareExample

LoopSpecInit == LoopInit /\ EqIdle /\ TraceIdle /\ TempIdle /\ ProgIdle

LoopSpec == LoopSpecInit /\ [][LoopNext]_vars

(***************************************************************************)
(* Tests that write an input file (TempSpec): test_stdlib_text_format,     *)
(* test_stdlib_json_format, test_stdlib_with_hash and                      *)
(* test_stdlib_compact_format, run by the test harness on parallel threads. *)
(***************************************************************************)

\* How many directory names the system's temporary directory can hold.
MaxDirs == 4

DirNames == 1..MaxDirs
NoDir == 0

\* each test and the contents it writes to test.txt
TempTests ==
    {"test_stdlib_text_format", "test_stdlib_json_format", "test_stdlib_with_hash",
     "test_stdlib_compact_format"}
contents(test) ==
    CASE test = "test_stdlib_text_format" -> "Hello World"
      [] test = "test_stdlib_json_format" -> "Test content"
      [] test = "test_stdlib_with_hash" -> "Hello"
      [] test = "test_stdlib_compact_format" -> "Data"

\* TempDir::new() creates a directory under a name no entry has yet
FreshNames(dirs) == DirNames \ DOMAIN dirs

create_dir(dirs, d) == [x \in DOMAIN dirs \cup {d} |-> IF x = d THEN <<>> ELSE dirs[x]]

\* std::fs::write(path, contents) with path = dir/test.txt
write(dirs, d, text) == [dirs EXCEPT ![d] = <<text>>]

\* faulty variant: the directory outlives its TempDir
keep_dir(dirs, d) == dirs

\* Drop for TempDir: the directory and what it holds are removed
remove_dir_all(dirs, d) == [x \in DOMAIN dirs \ {d} |-> dirs[x]]

TempInit ==
    temp = [dirs |-> <<>>,
            tests |-> [t \in TempTests |-> [pc |-> "new", temp_dir |-> NoDir, failed |-> FALSE]]]

\* let temp_dir = TempDir::new().unwrap();
TempDirNew(t) ==
    /\ temp.tests[t].pc = "new"
    /\ \/ \E d \in FreshNames(temp.dirs) :
            temp' = [dirs |-> create_dir(temp.dirs, d),
                     tests |-> [temp.tests EXCEPT ![t] = [pc |-> "write", temp_dir |-> d,
                                                          failed |-> FALSE]]]
       \/ \* the directory cannot be created: unwrap panics, nothing to drop
          temp' = [temp EXCEPT !.tests[t] = [pc |-> "ended", temp_dir |-> NoDir,
                                             failed |-> TRUE]]
    /\ UNCHANGED <<eq_vars, trace_vars, loop, prog>>

\* std::fs::write(&test_file, ...).unwrap();
WriteTestFile(t) ==
    /\ temp.tests[t].pc = "write"
    /\ \/ temp' = [dirs |-> write(temp.dirs, temp.tests[t].temp_dir, contents(t)),
                   tests |-> [temp.tests EXCEPT ![t].pc = "assert_equivalence"]]
       \/ \* the write fails: unwrap panics and the stack unwinds
          temp' = [temp EXCEPT !.tests[t].pc = "drop", !.tests[t].failed = TRUE]
    /\ UNCHANGED <<eq_vars, trace_vars, loop, prog>>

\* example.assert_equivalence(&["--file", test_file, ...]) returns or panics
CallAssertEquivalence(t) ==
    /\ temp.tests[t].pc = "assert_equivalence"
    /\ \E failed \in BOOLEAN :
         temp' = [temp EXCEPT !.tests[t].pc = "drop", !.tests[t].failed = failed]
    /\ UNCHANGED <<eq_vars, trace_vars, loop, prog>>

\* temp_dir goes out of scope, at the end of the test or during unwinding
DropTempDir(t) ==
    /\ temp.tests[t].pc = "drop"
    /\ temp' = [dirs |-> remove_dir_all(temp.dirs, temp.tests[t].temp_dir),
                tests |-> [temp.tests EXCEPT ![t].pc = "ended", ![t].temp_dir = NoDir]]
    /\ UNCHANGED <<eq_vars, trace_vars, loop, prog>>

TempNext ==
    \E t \in TempTests :
        \/ TempDirNew(t)
        \/ WriteTestFile(t)
        \/ CallAssertEquivalence(t)
        \/ DropTempDir(t)

TempSpecInit == TempInit /\ EqIdle /\ TraceIdle /\ LoopIdle /\ ProgIdle

TempSpec == TempSpecInit /\ [][TempNext]_vars

(***************************************************************************)
(* The example programs: 32-bit integers                                   *)
(***************************************************************************)

I32_MAX == 2147483647
I32_MIN == -I32_MAX - 1

\* a + b does not fit in an i32
add_overflows(a, b) == (b > 0 /\ a > I32_MAX - b) \/ (b < 0 /\ a < I32_MIN - b)

\* a + b in two's complement, as a build without overflow checks computes
\* it: the sum, 2^32 more or 2^32 less
wrapping_add(a, b) ==
    IF ~add_overflows(a, b) THEN a + b
    ELSE IF b > 0 THEN (a + I32_MIN) + (b + I32_MIN)
    ELSE (a - I32_MIN) + (b - I32_MIN)

\* a build with overflow checks (debug) panics on overflow, one without
\* (release) wraps
Builds == {"debug", "release"}

Overflow == "attempt to perform arithmetic with overflow"

(***************************************************************************)
(* example_range/src/main.rs (RangeSpec)                                   *)
(***************************************************************************)

\* The largest magnitude of the small values given as start, end and n.
MaxStart == 3
\* How many printed numbers are recorded.
MaxResult == 2

Smalls == (-MaxStart)..MaxStart
\* a stride of a quarter of the integer range, so that the ends of the range
\* are a few turns away
Quarter == 1073741824
Steps == {-Quarter, -1, 0, 1, 2, Quarter}

\* the three commands, given their arguments, at the head of their loop:
\* Upto counts from 0 to n by 1, Between from start to end by 1
RangeRun(build, command, start, end, step) ==
    [program |-> "example_range", build |-> build, command |-> command,
     start |-> start, end |-> end, step |-> step,
     i |-> start, result |-> <<>>, odd |-> FALSE, pc |-> "while", panic |-> "none"]

\* a descending walk from a small start reaches the end of the range only by
\* the quarter stride; -1 is given where the loop is not entered
RangeRuns ==
    {RangeRun(b, "Upto", 0, n, 1) : b \in Builds, n \in Smalls}
    \cup {RangeRun(b, "Between", st, en, 1) : b \in Builds, st \in Smalls, en \in Smalls}
    \cup {RangeRun(b, "Step", st, en, sp) : b \in Builds, st \in Smalls, en \in Smalls,
                                             sp \in Steps \ {-1}}
    \cup {RangeRun(b, "Step", st, en, -1) : b \in Builds, st \in Smalls, en \in {-MaxStart}}

RangeInit == prog \in RangeRuns

\* result + " " + i.to_string(): the numbers printed, the first MaxResult of them
push(result, i) == IF Len(result) < MaxResult THEN Append(result, i) ELSE result

\* while i < end
InRange(i, end) == i < end

\* one turn of the loop: the number joins the result and i = i + step.
\* result grows by a number at every turn; past the numbers recorded, `odd`
\* still tells whether it holds an odd count of them.
WhileTurn ==
    /\ prog.pc = "while"
    /\ InRange(prog.i, prog.end)
    /\ IF add_overflows(prog.i, prog.step) /\ prog.build = "debug"
       THEN prog' = [prog EXCEPT !.result = push(@, prog.i), !.odd = ~@,
                                 !.pc = "panicked", !.panic = Overflow]
       ELSE prog' = [prog EXCEPT !.result = push(@, prog.i), !.odd = ~@,
                                 !.i = wrapping_add(prog.i, prog.step)]
    /\ UNCHANGED <<eq_vars, trace_vars, loop, temp>>

\* the condition fails: println!("{}", result) and main returns
WhileExit ==
    /\ prog.pc = "while"
    /\ ~InRange(prog.i, prog.end)
    /\ prog' = [prog EXCEPT !.pc = "returned"]
    /\ UNCHANGED <<eq_vars, trace_vars, loop, temp>>

RangeNext == WhileTurn \/ WhileExit

RangeSpecInit == RangeInit /\ EqIdle /\ TraceIdle /\ LoopIdle /\ TempIdle

RangeSpec == RangeSpecInit /\ [][RangeNext]_vars

\* the program is not stopped from outside: a step that can be taken is taken
RangeFairSpec == RangeSpec /\ WF_vars(RangeNext)

(***************************************************************************)
(* example_hex_oct/src/main.rs, the Dec command (HexSpec)                  *)
(***************************************************************************)

\* The longest hexval made of arbitrary characters.
MaxHex == 3

HexChars == <<"0", "1", "2", "3", "4", "5", "6", "7", "8", "9", "a", "b", "c", "d", "e", "f">>
UpperHexChars == <<"A", "B", "C", "D", "E", "F">>

\* char::to_digit(16): the digit's value, or -1 for a character that is none
to_digit(c) ==
    IF \E k \in 1..16 : HexChars[k] = c THEN (CHOOSE k \in 1..16 : HexChars[k] = c) - 1
    ELSE IF \E k \in 1..6 : UpperHexChars[k] = c
    THEN (CHOOSE k \in 1..6 : UpperHexChars[k] = c) + 9
    ELSE -1

ParseIntError(kind) == [ok |-> FALSE, kind |-> kind]

\* an i64 holds sixteen hexadecimal digits, the first below 8; -2^63 is the
\* one value with a first digit of 8
I64_HEX_DIGITS == 16
fits_i64(negative, digits) ==
    \/ Len(digits) < I64_HEX_DIGITS
    \/ Len(digits) = I64_HEX_DIGITS /\ digits[1] < 8
    \/ /\ negative
       /\ Len(digits) = I64_HEX_DIGITS /\ digits[1] = 8
       /\ \A k \in 2..I64_HEX_DIGITS : digits[k] = 0

\* the digits are taken from the left; the value is kept as its significant
\* hexadecimal digits, as it can exceed any integer at hand
RECURSIVE accumulate(_, _, _)
accumulate(src, negative, digits) ==
    IF src = <<>> THEN Ok([negative |-> negative /\ digits # <<>>, digits |-> digits])
    ELSE LET d == to_digit(Head(src)) IN
         IF d = -1 THEN ParseIntError("InvalidDigit")
         ELSE LET more == IF digits = <<>> /\ d = 0 THEN <<>> ELSE Append(digits, d) IN
              IF ~fits_i64(negative, more)
              THEN ParseIntError(IF negative THEN "NegOverflow" ELSE "PosOverflow")
              ELSE accumulate(Tail(src), negative, more)

\* i64::from_str_radix(src, 16): an optional sign, then one digit or more
from_str_radix(src) ==
    IF src = <<>> THEN ParseIntError("Empty")
    ELSE IF Head(src) \in {"+", "-"}
    THEN IF Tail(src) = <<>> THEN ParseIntError("InvalidDigit")
         ELSE accumulate(Tail(src), Head(src) = "-", <<>>)
    ELSE accumulate(src, FALSE, <<>>)

\* characters for the short hexvals, and hexvals at the edge of 64 bits
HexAlphabet == {"0", "7", "f", "F", "g", "+", "-"}
LongHexvals ==
    {Repeat("f", I64_HEX_DIGITS - 1), Repeat("f", I64_HEX_DIGITS),
     Repeat("f", I64_HEX_DIGITS + 1),
     <<"7">> \o Repeat("f", I64_HEX_DIGITS - 1),
     <<"8">> \o Repeat("0", I64_HEX_DIGITS - 1),
     <<"-", "8">> \o Repeat("0", I64_HEX_DIGITS - 1),
     <<"-", "8">> \o Repeat("0", I64_HEX_DIGITS - 2) \o <<"1">>,
     <<"0", "0">> \o Repeat("f", I64_HEX_DIGITS - 1)}
Hexvals == UNION {[1..k -> HexAlphabet] : k \in 0..MaxHex} \cup LongHexvals

HexInit ==
    prog \in {[program |-> "example_hex_oct", command |-> "Dec", hexval |-> h,
               pc |-> "match", printed |-> <<>>, panic |-> "none"] : h \in Hexvals}

\* Commands::Dec: println!("{}", i64::from_str_radix(hexval, 16).unwrap()); Ok(())
DecCommand ==
    /\ prog.pc = "match"
    /\ LET parsed == from_str_radix(prog.hexval) IN
       IF parsed.ok
       THEN prog' = [prog EXCEPT !.printed = <<parsed.v>>, !.pc = "returned"]
       ELSE prog' = [prog EXCEPT !.pc = "panicked", !.panic = <<UnwrapErr, parsed.kind>>]
    /\ UNCHANGED <<eq_vars, trace_vars, loop, temp>>

HexNext == DecCommand

HexSpecInit == HexInit /\ EqIdle /\ TraceIdle /\ LoopIdle /\ TempIdle

HexSpec == HexSpecInit /\ [][HexNext]_vars

(***************************************************************************)
(* example_abs/src/main.rs, the Int command (AbsSpec)                      *)
(***************************************************************************)

\* The largest magnitude of the small values given as x.
MaxAbs == 30

\* -x does not fit in an i32
neg_overflows(x) == x = I32_MIN

\* -x in two's complement
wrapping_neg(x) == IF x = I32_MIN THEN I32_MIN ELSE -x

AbsInputs == ((-MaxAbs)..MaxAbs) \cup {I32_MIN, I32_MIN + 1, I32_MAX - 1, I32_MAX}

AbsInit ==
    prog \in {[program |-> "example_abs", build |-> b, command |-> "Int", x |-> x,
               pc |-> "match", printed |-> <<>>, panic |-> "none"] :
                 b \in Builds, x \in AbsInputs}

\* Commands::Int: if x < 0 { println!("{}", -x) } else { println!("{}", x) }
IntCommand ==
    /\ prog.pc = "match"
    /\ LET x == prog.x
           _cse_temp_1 == x < 0
       IN  IF _cse_temp_1
           THEN IF neg_overflows(x) /\ prog.build = "debug"
                THEN prog' = [prog EXCEPT !.pc = "panicked", !.panic = Overflow]
                ELSE prog' = [prog EXCEPT !.printed = <<wrapping_neg(x)>>, !.pc = "returned"]
           ELSE prog' = [prog EXCEPT !.printed = <<x>>, !.pc = "returned"]
    /\ UNCHANGED <<eq_vars, trace_vars, loop, temp>>

AbsNext == IntCommand

AbsSpecInit == AbsInit /\ EqIdle /\ TraceIdle /\ LoopIdle /\ TempIdle

AbsSpec == AbsSpecInit /\ [][AbsNext]_vars

(***************************************************************************)
(* example_divmod/src/main.rs (DivmodSpec)                                 *)
(***************************************************************************)

\* The largest magnitude of the small values given as a and b.
MaxDiv == 4

DivideByZero == "attempt to divide by zero"
DivideOverflow == "attempt to divide with overflow"

\* why a / b or a % b panics on i32, in every build, or "none"
div_panic(a, b) ==
    IF b = 0 THEN DivideByZero
    ELSE IF a = I32_MIN /\ b = -1 THEN DivideOverflow
    ELSE "none"

\* a / b on i32 for a divisor above zero: the quotient rounded towards zero
div_positive(a, b) ==
    IF a >= 0 \/ a % b = 0 THEN a \div b ELSE (a \div b) + 1

\* a / b on i32: rounded towards zero
trunc_div(a, b) == IF b > 0 THEN div_positive(a, b) ELSE -div_positive(a, -b)

\* a % b on i32: what a / b leaves, with the sign of a
trunc_rem(a, b) == a - trunc_div(a, b) * b

\* the block of lines 41-56 and 64-79: the quotient, one less when the
\* remainder is not zero and differs in sign from b
floor_quotient(a, b) ==
    LET q == trunc_div(a, b)
        r == trunc_rem(a, b)
        r_negative == r < 0
        b_negative == b < 0
        r_nonzero == r # 0
        signs_differ == r_negative # b_negative
        needs_adjustment == r_nonzero /\ signs_differ
    IN  IF needs_adjustment THEN q - 1 ELSE q

DivInputs == ((-MaxDiv)..MaxDiv) \cup {I32_MIN, I32_MAX}
Divisors == (-MaxDiv)..MaxDiv

DivmodInit ==
    prog \in {[program |-> "example_divmod", command |-> c, a |-> a, b |-> b,
               pc |-> "match", printed |-> <<>>, panic |-> "none"] :
                 c \in {"Calc", "Quot", "Rem"}, a \in DivInputs, b \in Divisors}

\* a command's arm: a panic of the division, or the values printed and Ok(())
Arm(command, values) ==
    /\ prog.pc = "match"
    /\ prog.command = command
    /\ IF div_panic(prog.a, prog.b) # "none"
       THEN prog' = [prog EXCEPT !.pc = "panicked", !.panic = div_panic(prog.a, prog.b)]
       ELSE prog' = [prog EXCEPT !.pc = "returned", !.printed = values]
    /\ UNCHANGED <<eq_vars, trace_vars, loop, temp>>

\* Commands::Calc: println!("{} {}", { floor-adjusted quotient }, a % b)
CalcCommand ==
    Arm("Calc", <<floor_quotient(prog.a, prog.b), trunc_rem(prog.a, prog.b)>>)

\* Commands::Quot: the floor-adjusted quotient
QuotCommand == Arm("Quot", <<floor_quotient(prog.a, prog.b)>>)

\* Commands::Rem: println!("{}", a % b)
RemCommand == Arm("Rem", <<trunc_rem(prog.a, prog.b)>>)

DivmodNext == CalcCommand \/ QuotCommand \/ RemCommand

DivmodSpecInit == DivmodInit /\ EqIdle /\ TraceIdle /\ LoopIdle /\ TempIdle

DivmodSpec == DivmodSpecInit /\ [][DivmodNext]_vars

(***************************************************************************)
(* example_minmax/src/main.rs (MinmaxSpec)                                 *)
(***************************************************************************)

\* The largest value given to Min, Max and Clamp; the least is its negative.
MaxVal == 1

Vals == (-MaxVal)..MaxVal

\* Commands::Min: the one comparison b < a, taken before any assignment,
\* decides all four ifs
min_of(a, b, c, d, e) ==
    LET _cse_temp_1 == b < a
        result1 == IF _cse_temp_1 THEN b ELSE a
        result2 == IF _cse_temp_1 THEN c ELSE result1
        result3 == IF _cse_temp_1 THEN d ELSE result2
        result4 == IF _cse_temp_1 THEN e ELSE result3
    IN  result4

\* Commands::Max: the same with b > a
max_of(a, b, c, d, e) ==
    LET _cse_temp_3 == b > a
        result1 == IF _cse_temp_3 THEN b ELSE a
        result2 == IF _cse_temp_3 THEN c ELSE result1
        result3 == IF _cse_temp_3 THEN d ELSE result2
        result4 == IF _cse_temp_3 THEN e ELSE result3
    IN  result4

\* Commands::Clamp: each comparison is taken where it is used
clamp(val, lo, hi) ==
    LET _cse_temp_5 == val < lo
        result1 == IF _cse_temp_5 THEN lo ELSE val
        _cse_temp_6 == result1 > hi
    IN  IF _cse_temp_6 THEN hi ELSE result1

\* Min and Max take a, b, c, d, e; Clamp takes val, lo, hi
MinmaxInit ==
    prog \in {[program |-> "example_minmax", command |-> c, values |-> v,
               pc |-> "match", printed |-> <<>>] :
                 c \in {"Min", "Max"}, v \in [1..5 -> Vals]}
             \cup {[program |-> "example_minmax", command |-> "Clamp", values |-> v,
                    pc |-> "match", printed |-> <<>>] : v \in [1..3 -> Vals]}

\* println!("{}", result) at the end of an arm
Println(command, result) ==
    /\ prog.pc = "match"
    /\ prog.command = command
    /\ prog' = [prog EXCEPT !.pc = "returned", !.printed = <<result>>]
    /\ UNCHANGED <<eq_vars, trace_vars, loop, temp>>

MinCommand ==
    Println("Min", min_of(prog.values[1], prog.values[2], prog.values[3], prog.values[4],
                          prog.values[5]))
MaxCommand ==
    Println("Max", max_of(prog.values[1], prog.values[2], prog.values[3], prog.values[4],
                          prog.values[5]))
ClampCommand == Println("Clamp", clamp(prog.values[1], prog.values[2], prog.values[3]))

MinmaxNext == MinCommand \/ MaxCommand \/ ClampCommand

MinmaxSpecInit == MinmaxInit /\ EqIdle /\ TraceIdle /\ LoopIdle /\ TempIdle

MinmaxSpec == MinmaxSpecInit /\ [][MinmaxNext]_vars

(***************************************************************************)
(* Properties of assert_equivalence (checked under Spec)                   *)
(***************************************************************************)

Exited(p) == p.state = "exited"
BothExited == Exited(py_proc) /\ Exited(rs_proc)
Signaled(p) == Exited(p) /\ p.status.kind = "signaled"

\* the exit-code assertion has been evaluated and held
PastExitCheck ==
    \/ pc \in {"cmp_stdout", "cmp_stderr", "passed"}
    \/ pc = "panicked" /\ failure.kind \in {"stdout", "stderr"}
\* the stdout assertion has been evaluated and held
PastStdoutCheck ==
    \/ pc \in {"cmp_stderr", "passed"}
    \/ pc = "panicked" /\ failure.kind = "stderr"
\* C1: the stdout pair is accepted only when the two captured stdout byte
\* sequences are identical byte for byte.
C1_StdoutByteForByte == PastStdoutCheck => py_proc.stdout = rs_proc.stdout

\* C2: whenever the exit code of the reference differs from that of the
\* candidate (a run without exit code counting as the code the runner gives
\* it), assert_equivalence fails in its exit-code assertion and the failure
\* names both codes; it never goes on to the later checks, nor passes.
C2_ExitCodeMismatchFails ==
    (BothExited /\ pc \notin {"wait_rust", "cmp_exit"}
       /\ exit_code(py_proc.status) # exit_code(rs_proc.status))
    => /\ pc = "panicked"
       /\ failure.kind = "exit_codes"
       /\ failure.python = exit_code(py_proc.status)
       /\ failure.rust = exit_code(rs_proc.status)

C2_Witness ==
    /\ pc = "panicked"
    /\ failure.kind = "exit_codes"
    /\ py_proc.status = [kind |-> "exited", code |-> 0]
    /\ rs_proc.status = [kind |-> "exited", code |-> 1]

to_ascii_lowercase(b) == IF b >= 65 /\ b <= 90 THEN b + 32 ELSE b
Lowercase(s) == [i \in 1..Len(s) |-> to_ascii_lowercase(s[i])]
BothStderrNonEmpty == BothExited /\ py_proc.stderr # <<>> /\ rs_proc.stderr # <<>>

\* C3 as stated: with both stderr non-empty and exit code and stdout
\* matching, assert_equivalence passes if and only if the candidate's stderr
\* contains "error" in any casing.
C3_CaseInsensitiveError ==
    (BothStderrNonEmpty /\ PastStdoutCheck /\ pc # "cmp_stderr")
    => (pc = "passed" <=> contains(Lowercase(rs_proc.stderr), b_error))

\* C3 as amended: with both stderr non-empty and exit code and stdout
\* matching, assert_equivalence passes if and only if the candidate's stderr
\* contains "error" or "Error"; every other casing fails the stderr assertion.
C3_ErrorOrCapitalisedError ==
    (BothStderrNonEmpty /\ PastStdoutCheck /\ pc # "cmp_stderr")
    => (pc = "passed"
          <=> (contains(rs_proc.stderr, b_error) \/ contains(rs_proc.stderr, b_Error)))

C3_Witness ==
    /\ BothStderrNonEmpty
    /\ pc = "panicked"
    /\ failure.kind = "stderr"
    /\ rs_proc.stderr = b_ERROR

AsymmetricStderr == BothExited /\ ((py_proc.stderr = <<>>) # (rs_proc.stderr = <<>>))

\* C4 as stated: when exactly one side wrote to stderr, assert_equivalence
\* reports a failure.
C4_AsymmetricStderrFails == AsymmetricStderr => pc # "passed"

\* C4 as amended: when exactly one side wrote to stderr, stderr is not
\* compared: no stderr failure is raised, and with equal exit codes and equal
\* stdout the scenario passes.
C4_AsymmetricStderrIgnored ==
    AsymmetricStderr
    => /\ ~(pc = "panicked" /\ failure.kind = "stderr")
       /\ (PastStdoutCheck /\ pc # "cmp_stderr") => pc = "passed"

C4_Witness ==
    /\ AsymmetricStderr
    /\ pc = "passed"
    /\ rs_proc.stderr = b_usage

\* C5: the candidate is spawned only after the reference has terminated and
\* run_python has returned its exit code, stdout and stderr; the two children
\* are never alive together.
C5_ReferenceBeforeCandidate ==
    /\ (spawns.rust > 0 \/ rs_proc.state # "none")
         => (Exited(py_proc) /\ py = Captured(py_proc))
    /\ ~(py_proc.state = "alive" /\ rs_proc.state = "alive")

C5_Witness == rs_proc.state = "alive" /\ Exited(py_proc) /\ py_proc.stdout # <<>>

\* C6: reference and candidate are each spawned at most once, whatever the
\* outcome (spawn failure, non-zero exit, mismatch).
C6_AtMostOneSpawnPerSide == spawns.python <= 1 /\ spawns.rust <= 1

C6_Witness ==
    /\ pc = "panicked"
    /\ failure.kind = "stdout"
    /\ spawns = [python |-> 1, rust |-> 1]
    /\ py_proc.status.code = 1

\* C7 as stated: a subject killed by a signal never enters the comparison
\* as an exit code, so no scenario with a signal-killed side gets to, or
\* past, the exit-code check.
C7_SignalNeverCompared ==
    (Signaled(py_proc) \/ Signaled(rs_proc))
    => ~(pc = "cmp_exit" \/ PastExitCheck \/ (pc = "panicked" /\ failure.kind = "exit_codes"))

\* C7 as amended: a subject killed by a signal is returned by the runner with
\* the exit code -1, which is compared like any other: when exactly one side
\* was killed the exit-code assertion fails, naming -1 for that side, and
\* when both were killed the exit-code assertion holds.
C7_SignalIsMinusOne ==
    (BothExited /\ pc \notin {"wait_rust", "cmp_exit"})
    => /\ (Signaled(py_proc) /\ ~Signaled(rs_proc))
            => (pc = "panicked" /\ failure.kind = "exit_codes" /\ failure.python = -1)
       /\ (~Signaled(py_proc) /\ Signaled(rs_proc))
            => (pc = "panicked" /\ failure.kind = "exit_codes" /\ failure.rust = -1)
       /\ (Signaled(py_proc) /\ Signaled(rs_proc)) => PastExitCheck

C7_Witness == Signaled(py_proc) /\ Signaled(rs_proc) /\ pc = "passed"

\* C8: whenever an executable cannot be started, the failure names the path
\* of the executable that was attempted.
C8_SpawnFailureNamesPath ==
    (pc = "panicked" /\ failure.kind \in {"expect", "binary_not_found"})
    => /\ "path" \in DOMAIN failure
       /\ failure.path \in {"python3", python_script_path, rust_binary_path}

(***************************************************************************)
(* Properties of the golden-trace suite (checked under TraceSpec)          *)
(***************************************************************************)

SchemaCompatible(file) ==
    /\ file.state = "json"
    /\ file.value.t = "object"
    /\ "version" \in DOMAIN file.value.o /\ file.value.o["version"] = Str(EXPECTED_VERSION)
    /\ "format" \in DOMAIN file.value.o /\ file.value.o["format"] = Str(EXPECTED_FORMAT)

StatisticalTests == {"test_performance_baseline", "test_syscall_count_budget",
                     "test_expected_syscall_patterns", "test_regression_check"}

\* C9: no performance-budget, syscall-count-budget, pattern-presence or
\* live-regression check reports a pass on a baseline whose version or format
\* differs from the expected constants.
C9_SchemaBeforeStatistics ==
    \A t \in StatisticalTests :
        (verdict[t] = "pass" /\ golden_trace.state = "json")
        => (VersionMatches(golden_trace.value) /\ FormatMatches(golden_trace.value))

\* C10: the format check passes only on a document whose version member is
\* the string "0.6.2" and whose format member is the string
\* "renacer-json-v1"; on any other document it fails, and with the version
\* wrong it fails in the version assertion.
C10_ExactVersionAndFormat ==
    LET v == verdict["test_golden_trace_format"] IN
    /\ v = "pass" => SchemaCompatible(golden_trace)
    /\ (v # "idle" /\ golden_trace.state = "json"
          /\ Index(golden_trace.value, "version") # Str(EXPECTED_VERSION))
         => v = "Trace version should match"

C10_Witness ==
    /\ verdict["test_golden_trace_format"] = "pass"
    /\ Len(golden_trace.value.o["syscalls"].a) = MaxEvents

SyscallList(file) == Index(file.value, "syscalls").a
HasSyscallList(file) == file.state = "json" /\ is_array(Index(file.value, "syscalls"))

\* C11: on a golden trace whose syscalls array is empty the format check
\* fails, and neither the pattern-presence check nor the live regression
\* check reports a pass.
C11_EmptyBaselineNeverPasses ==
    (HasSyscallList(golden_trace) /\ Len(SyscallList(golden_trace)) = 0)
    => \A t \in {"test_golden_trace_format", "test_expected_syscall_patterns",
                 "test_regression_check"} : verdict[t] # "pass"

WellFormedEvent(sc) ==
    /\ sc.t = "object"
    /\ is_string(Index(sc, "name"))
    /\ is_array(Index(sc, "args"))

\* C12: the format check passes only if every element of the syscalls array
\* is an object with a string name and an array args.
C12_EveryEventWellFormed ==
    verdict["test_golden_trace_format"] = "pass"
    => \A i \in 1..Len(SyscallList(golden_trace)) :
           WellFormedEvent(SyscallList(golden_trace)[i])

(***************************************************************************)
(* Properties of the budget tests (checked under SummarySpec)              *)
(***************************************************************************)

LastLine(file) == file.lines[Len(file.lines)]

\* the summary's last line has a time field that is a number
HasTotalTime ==
    /\ summary.state = "text" /\ Len(summary.lines) > 0
    /\ Len(LastLine(summary)) >= 2
    /\ LastLine(summary)[2].class \in {"decimal", "integer"}

\* that number, in millionths of a second
TotalTime ==
    IF LastLine(summary)[2].class = "decimal" THEN LastLine(summary)[2].v
    ELSE LastLine(summary)[2].v * 1000000

\* C13: the performance-budget check fails if and only if the total time in
\* seconds times 1000 is at least 2 (ms), and passes for every smaller value.
C13_TimeCeiling ==
    LET v == verdict["test_performance_baseline"] IN
    (HasTotalTime /\ v # "idle")
    => /\ (TotalTime >= 2000) <=> (v = "CLI should complete in <2ms")
       /\ (TotalTime < 2000) <=> (v = "pass")

C13_Witness ==
    /\ HasTotalTime /\ TotalTime = 1999
    /\ verdict["test_performance_baseline"] = "pass"

\* the summary's last line has a call-count field that is an unsigned integer
HasTotalCalls ==
    /\ summary.state = "text" /\ Len(summary.lines) > 0
    /\ Len(LastLine(summary)) >= 4
    /\ LastLine(summary)[4].class = "integer"

TotalCalls == LastLine(summary)[4].v

\* C14: the syscall-count-budget check fails if and only if the total call
\* count is at least 100, and passes for every count from 0 to 99.
C14_CallCeiling ==
    LET v == verdict["test_syscall_count_budget"] IN
    (HasTotalCalls /\ v # "idle")
    => /\ (TotalCalls >= 100) <=> (v = "CLI should use <100 syscalls")
       /\ (TotalCalls \in 0..99) <=> (v = "pass")

C14_Witness ==
    /\ HasTotalCalls /\ TotalCalls = 99
    /\ verdict["test_syscall_count_budget"] = "pass"

\* the summary exists and is empty, or its last line is too short for the
\* field a test reads, or that field is no number
Malformed(test) ==
    /\ summary.state = "text"
    /\ IF test = "test_performance_baseline" THEN ~HasTotalTime ELSE ~HasTotalCalls

\* C19: an empty summary, a last row with too few columns and a non-numeric
\* field are each reported as a malformed summary: never a pass, and never
\* the bare panic of an unwrap or of an index.
C19_MalformedSummaryReported ==
    \A t \in {"test_performance_baseline", "test_syscall_count_budget"} :
        (Malformed(t) /\ verdict[t] # "idle")
        => verdict[t] \notin {"pass", UnwrapNone, UnwrapErr, IndexOutOfBounds}

(***************************************************************************)
(* Properties of the regression test (checked under RegressionSpec)        *)
(***************************************************************************)

\* both traces were read and both hold a syscall list
BothCounted ==
    /\ HasSyscallList(golden_trace)
    /\ renacer.started /\ renacer.success /\ HasSyscallList(renacer.stdout)

\* N, the baseline's count, and M, the fresh trace's
GoldenCount == Len(SyscallList(golden_trace))
NewCount == Len(SyscallList(renacer.stdout))

Regressed == verdict["test_regression_check"] = "Syscall count regression detected"

\* C17: for a baseline of N syscalls and a fresh trace of M, the regression
\* test passes if and only if |M - N| <= 10, above and below the baseline.
C17_ToleranceBothSides ==
    (BothCounted /\ verdict["test_regression_check"] # "idle")
    => /\ verdict["test_regression_check"] = "pass"
            <=> (NewCount - GoldenCount <= 10 /\ GoldenCount - NewCount <= 10)
       /\ verdict["test_regression_check"] # "pass" => Regressed

\* a drop of exactly eleven below the baseline fails
C17_Witness ==
    /\ BothCounted /\ NewCount = GoldenCount - 11
    /\ Regressed

Named(sc, n) == sc.t = "object" /\ "name" \in DOMAIN sc.o /\ sc.o.name = Str(n)

\* the trace holds an event with one of the names
HasEventNamed(file, names) ==
    \E i \in 1..Len(SyscallList(file)) : \E n \in names : Named(SyscallList(file)[i], n)

\* the trace less every event with one of the names
Without(file, names) ==
    TraceOf(SelectSeq(SyscallList(file), LAMBDA sc : \A n \in names : ~Named(sc, n)))

PatternVerdict == verdict["test_expected_syscall_patterns"]
NoOutput == "CLI should perform write syscall for output"
NoAllocation == "CLI should perform memory allocation"

\* C15: the pattern test passes if and only if the trace holds an output
\* event (a write) and an allocation event (brk or mmap); a trace with every
\* output event removed, or every allocation event removed, fails.
C15_OutputAndAllocation ==
    (HasSyscallList(golden_trace) /\ PatternVerdict # "idle")
    => /\ PatternVerdict = "pass"
            <=> /\ HasEventNamed(golden_trace, {"write"})
                /\ HasEventNamed(golden_trace, {"brk", "mmap"})
       /\ PatternVerdict \in {"pass", NoOutput, NoAllocation}
       /\ expected_syscall_patterns(Without(golden_trace, {"write"})) = NoOutput
       /\ expected_syscall_patterns(Without(golden_trace, {"brk", "mmap"}))
            \in {NoOutput, NoAllocation}

\* a trace that passes only through its mmap
C15_Witness ==
    /\ HasSyscallList(golden_trace)
    /\ PatternVerdict = "pass"
    /\ ~HasEventNamed(golden_trace, {"brk"})
    /\ expected_syscall_patterns(Without(golden_trace, {"mmap"})) = NoAllocation

\* C16 (as stated): a trace whose output event is another call of the write
\* family satisfies the output requirement.
C16_WriteFamilyIsOutput ==
    (/\ HasSyscallList(golden_trace)
     /\ PatternVerdict # "idle"
     /\ HasEventNamed(golden_trace, {"write", "writev", "pwrite64"}))
    => PatternVerdict # NoOutput

\* C16 (amended): allocation is met by either of two names, mmap alone or
\* brk alone, but output by the one name "write": writev or pwrite64 alone
\* does not meet it.
C16_OnlyWriteIsOutput ==
    (HasSyscallList(golden_trace) /\ PatternVerdict # "idle")
    => /\ PatternVerdict = NoOutput <=> ~HasEventNamed(golden_trace, {"write"})
       /\ \A alloc \in {"brk", "mmap"} :
            (HasEventNamed(golden_trace, {"write"}) /\ HasEventNamed(golden_trace, {alloc}))
            => PatternVerdict = "pass"

\* writev and an allocation, and still no output
C16_Witness ==
    /\ HasSyscallList(golden_trace)
    /\ HasEventNamed(golden_trace, {"writev"})
    /\ HasEventNamed(golden_trace, {"brk", "mmap"})
    /\ PatternVerdict = NoOutput

(***************************************************************************)
(* Properties of the cross-example tests (checked under LoopSpec)          *)
(***************************************************************************)

\* C20: a failed equivalence assertion on one of the six subjects of
\* test_all_examples_have_help or test_all_examples_have_version does not
\* keep the remaining subjects from being compared: a test that ended on a
\* failure has compared all six.
C20_FailureLeavesSiblingsCompared ==
    loop.panic # NoFailure => Len(loop.compared) = Len(examples)

(***************************************************************************)
(* Frame of the golden-trace tests (checked under TraceSpec)               *)
(***************************************************************************)

\* what each test reports of the fixtures as they are
VerdictOf(t) ==
    CASE t = "test_golden_trace_exists" -> golden_trace_exists(golden_trace)
      [] t = "test_golden_trace_format" -> golden_trace_format(golden_trace)
      [] t = "test_performance_baseline" -> performance_baseline(summary)
      [] t = "test_syscall_count_budget" -> syscall_count_budget(summary)
      [] t = "test_expected_syscall_patterns" -> expected_syscall_patterns(golden_trace)
      [] t = "test_regression_check" -> regression_check(renacer, golden_trace)

\* every test that has run reported what it would report run alone
VerdictsOfFixtures == \A t \in Tests : verdict[t] # "idle" => verdict[t] = VerdictOf(t)

\* C21: no test of the golden-trace suite, the regression test included,
\* changes the golden trace or its summary, and so each test's verdict is the
\* same whichever tests ran before it.
C21_FixturesReadOnly ==
    /\ [][golden_trace' = golden_trace /\ summary' = summary]_vars
    /\ []VerdictsOfFixtures

\* all six tests have run over a stored trace, the regression test last in
\* no particular order, with both passes and failures among them
C21_Witness ==
    /\ \A t \in Tests : verdict[t] # "idle"
    /\ golden_trace.state = "json"
    /\ verdict["test_golden_trace_exists"] = "pass"
    /\ verdict["test_regression_check"] = "pass"
    /\ verdict["test_performance_baseline"] # "pass"

(***************************************************************************)
(* Properties of the tests with an input file (checked under TempSpec)     *)
(***************************************************************************)

Holding(t) == temp.tests[t].temp_dir # NoDir

\* C22: a test writes its input file inside a temporary directory of its
\* own, no two tests running together share a path, and the directory is
\* gone on every way out of the test, a failed assert_equivalence included.
C22_OwnDirectoryAlwaysRemoved ==
    /\ \A t, u \in TempTests :
         (t # u /\ Holding(t) /\ Holding(u)) => temp.tests[t].temp_dir # temp.tests[u].temp_dir
    /\ \A d \in DOMAIN temp.dirs :
         /\ \E t \in TempTests : temp.tests[t].temp_dir = d
         /\ \A t \in TempTests :
              temp.dirs[d] = <<contents(t)>> => temp.tests[t].temp_dir = d
    /\ \A t \in TempTests : temp.tests[t].pc = "ended" => ~Holding(t)

\* a test has ended on a failed assert_equivalence while another still holds
\* its file, and only that other directory is left
C22_Witness ==
    \E t, u \in TempTests :
        /\ temp.tests[t].pc = "ended" /\ temp.tests[t].failed
        /\ temp.tests[u].pc = "assert_equivalence"
        /\ DOMAIN temp.dirs = {temp.tests[u].temp_dir}
        /\ temp.dirs[temp.tests[u].temp_dir] = <<contents(u)>>

(***************************************************************************)
(* What a failure of assert_equivalence carries (checked under Spec)       *)
(***************************************************************************)

\* the value each side showed for the check that failed
Observed(kind, side) ==
    CASE kind = "exit_codes" -> side[1]
      [] kind = "stdout" -> side[2]
      [] kind = "stderr" -> side[3]

\* C23: every failure raised by assert_equivalence (exit codes, stdout,
\* stderr) carries the scenario name, the argument vector and the value
\* observed on the reference side and on the candidate side.
C23_FailureCarriesBothSides ==
    failure.kind \in {"exit_codes", "stdout", "stderr"}
    => /\ {"name", "args", "python", "rust"} \subseteq DOMAIN failure
       /\ failure.name = name
       /\ failure.args = args
       /\ failure.python = Observed(failure.kind, py)
       /\ failure.rust = Observed(failure.kind, rs)

(***************************************************************************)
(* The row the budget tests read (checked under SummarySpec)               *)
(***************************************************************************)

\* the summary's last line is the aggregate row, labelled "total"
LastLineIsTotalRow ==
    /\ summary.state = "text" /\ Len(summary.lines) > 0
    /\ Len(LastLine(summary)) = 6
    /\ LastLine(summary)[6] = Word("total")

\* C24: a budget test passes only on the values of the row labelled "total";
\* when the last line is some other row, no budget test passes on it.
C24_BudgetsReadTotalRow ==
    \A t \in {"test_performance_baseline", "test_syscall_count_budget"} :
        verdict[t] = "pass" => LastLineIsTotalRow

(***************************************************************************)
(* Termination of example_range (checked under RangeFairSpec)              *)
(***************************************************************************)

\* C25: main of example_range terminates for every start, end and step, a
\* step of 0 and a negative step with start < end included: the loop of the
\* Step command is left in the end.
C25_RangeTerminates == <>(prog.pc # "while")

(***************************************************************************)
(* example_hex_oct never panics (checked under HexSpec)                    *)
(***************************************************************************)

\* C26: for every hexval given to the Dec command, the empty string, strings
\* with other characters and values beyond 64 bits included, main ends by
\* returning a value and never by a panic.
C26_DecNeverPanics == prog.pc # "panicked"

(***************************************************************************)
(* example_abs never panics (checked under AbsSpec)                        *)
(***************************************************************************)

\* C27: for every 32-bit x given to the Int command, -2^31 included, main
\* does not panic, the negation does not overflow, and the printed value is
\* the absolute value of x and not negative.
C27_AbsOfEveryInt ==
    /\ prog.pc # "panicked"
    /\ prog.pc = "returned"
        => /\ prog.printed[1] >= 0
           /\ prog.printed[1] = prog.x \/ prog.printed[1] + prog.x = 0

(***************************************************************************)
(* Order of the checks of assert_equivalence (checked under Spec)          *)
(***************************************************************************)

BothCaptured == py # NoResult /\ rs # NoResult

\* C28: the checks run in the order exit code, stdout, stderr and stop at
\* the first that fails: stdout is compared only on equal exit codes, stderr
\* only on equal exit codes and stdout, and the one failure reported is the
\* earliest in that order.
C28_ChecksInOrder ==
    /\ pc \in {"cmp_stdout", "cmp_stderr", "passed"} => py_exit = rs_exit
    /\ pc \in {"cmp_stderr", "passed"} => py_stdout = rs_stdout
    /\ failure.kind \in {"exit_codes", "stdout", "stderr"} => pc = "panicked" /\ BothCaptured
    /\ failure.kind = "exit_codes" => py_exit # rs_exit
    /\ failure.kind = "stdout" => py_exit = rs_exit /\ py_stdout # rs_stdout
    /\ failure.kind = "stderr" => py_exit = rs_exit /\ py_stdout = rs_stdout
    /\ (pc = "panicked" /\ BothCaptured)
        => failure.kind = IF py_exit # rs_exit THEN "exit_codes"
                          ELSE IF py_stdout # rs_stdout THEN "stdout"
                          ELSE "stderr"

\* the sides differ in exit code, in stdout and in what stderr shows, and
\* the exit codes are what is reported
C28_Witness ==
    /\ pc = "panicked" /\ BothCaptured
    /\ py_exit # rs_exit /\ py_stdout # rs_stdout
    /\ ~is_empty(py_stderr) /\ ~is_empty(rs_stderr) /\ ~StderrIndicatesError(rs_stderr)
    /\ failure.kind = "exit_codes"

(***************************************************************************)
(* example_divmod's pair (checked under DivmodSpec)                        *)
(***************************************************************************)

\* C29: for every a within MaxDiv of zero and every b other than 0, the pair
\* (q, r) the Calc command prints satisfies a = q*b + r with r zero or of
\* the sign of b, and q is what the Quot command prints for a and b.
C29_DivmodIdentity ==
    (prog.command = "Calc" /\ prog.pc = "returned" /\ prog.a \in Divisors)
    => LET q == prog.printed[1]
           r == prog.printed[2]
       IN  /\ q = floor_quotient(prog.a, prog.b)
           /\ r = prog.a - q * prog.b
           /\ r = 0 \/ ((r < 0) <=> (prog.b < 0))

(***************************************************************************)
(* example_minmax's Min and Max (checked under MinmaxSpec)                 *)
(***************************************************************************)

\* C30: for every five integers the Min command prints the smallest of them
\* and the Max command the largest: the printed value is one of the five and
\* none of them is smaller, respectively larger.
C30_MinAndMaxOfFive ==
    (prog.pc = "returned" /\ prog.command \in {"Min", "Max"})
    => /\ \E k \in 1..5 : prog.values[k] = prog.printed[1]
       /\ prog.command = "Min" => \A k \in 1..5 : prog.values[k] >= prog.printed[1]
       /\ prog.command = "Max" => \A k \in 1..5 : prog.values[k] <= prog.printed[1]

====
